---- MODULE Spec2Model ----
(***************************************************************************)
(* Model of the shim + systemd-boot two-stage bootloader plugin            *)
(* (src/bootloaders/shim-systemd.c) of clr-boot-manager.                   *)
(*                                                                         *)
(* The plugin keeps its state in file-scope statics (is_image_mode,        *)
(* has_boot_rec, the resolved paths) and acts on the ESP through the file  *)
(* collaborators (nc_mkdir_p, copy_file_atomic, nc_file_exists,            *)
(* cbm_files_match) and on the firmware through the bootvar collaborator   *)
(* (bootvar_init, bootvar_has_boot_rec, bootvar_create, bootvar_destroy).  *)
(* File content is abstracted to a content identity: two files are         *)
(* byte-identical exactly when their content identities are equal.         *)
(***************************************************************************)
EXTENDS Integers, Sequences, FiniteSets, TLC

(* ---- bounds ---- *)

\* capacity of the firmware for boot records naming the first-stage loader
MaxBootRecs == 2

\* the firmware queries counted in one process
MaxQueries == 2

(* ---- content identities ---- *)

Absent == "absent"      \* no file at the path
ForeignContent == "junk" \* bytes that match neither source binary

\* content of PREFIX/usr/lib/shim/shimx64.efi
shim_src == "shim"
\* content of PREFIX/usr/lib/systemd/boot/efi/systemd-bootx64.efi
systemd_src == "systemd"

\* destination files on the ESP handled by the plugin
shim_dst_host == "shim_dst_host"
systemd_dst_host == "systemd_dst_host"
efi_fallback_dst_host == "efi_fallback_dst_host"
DstFiles == {shim_dst_host, systemd_dst_host, efi_fallback_dst_host}

\* directories created by make_layout
kernel_dst_host == "kernel_dst_host"
systemd_config_entries == "systemd_config_entries"
efi_fallback_dir == "efi_fallback_dir"
LayoutDirs == {kernel_dst_host, systemd_config_entries, efi_fallback_dir}

VARIABLES
    image_mode,      \* the BootManager's mode flag (boot_manager_is_image_mode)
    is_image_mode,   \* static int is_image_mode
    has_boot_rec,    \* static int has_boot_rec: -1 unknown, 0 absent, 1 present
    phase,           \* plugin lifecycle: "new", "ready", "failed", "destroyed", "crashed"
    esp,             \* ESP files: DstFiles -> content identity or Absent
    dirs,            \* ESP directories: LayoutDirs -> BOOLEAN
    boot_recs,       \* firmware: number of boot records for the first-stage loader
    paths,           \* the resolved path statics: "unset", "resolved", "freed"
    sd_class,        \* the Generic-Loader Delegate (sd_class) is initialised
    last_init,       \* how the latest init went: "none", "live_ok", "live_failed", "image"
    queries,         \* bootvar_has_boot_rec calls issued so far in this process
    failed,          \* the collaborator call that failed in the last operation, or "none"
    op,              \* the operation that ran last
    ret,             \* what it returned
    calls,           \* collaborator calls it issued, in order
    prev_op,         \* the operation that ran before the last one
    prev_ret,        \* what that one returned
    pre_esp,         \* the ESP files as they were when the last operation began
    pre_recs,        \* the firmware's boot records when the last operation began
    conv             \* progress of the install / damage / update scenario

vars == <<image_mode, is_image_mode, has_boot_rec, phase, esp, dirs, boot_recs,
          paths, sd_class, last_init, queries, failed, op, ret, calls, prev_op, prev_ret, pre_esp, pre_recs, conv>>

(* ---- collaborators ---- *)

\* nc_file_exists(path)
nc_file_exists(files, path) == files[path] # Absent

\* cbm_files_match(path, spath): byte-for-byte comparison
cbm_files_match(files, path, scontent) == files[path] = scontent

\* bootvar_has_boot_rec(BOOT_DIRECTORY, shim_dst_esp)
bootvar_has_boot_rec(recs) == IF recs > 0 THEN 1 ELSE 0

(* ---- shim-systemd.c ---- *)

\* exists_identical(path, spath); spath = NULL is modelled as Absent
exists_identical(files, path, scontent) ==
    IF ~nc_file_exists(files, path) THEN FALSE
    ELSE IF scontent # Absent /\ ~cbm_files_match(files, path, scontent) THEN FALSE
    ELSE TRUE

\* a resolution that asks the firmware again while the memo says absent
ResolveBootRec_requery(hbr, img, recs) ==
    IF hbr <= 0
    THEN (IF img = 0
          THEN [val |-> bootvar_has_boot_rec(recs), calls |-> <<"bootvar_has_boot_rec">>]
          ELSE [val |-> 1, calls |-> <<>>])
    ELSE [val |-> hbr, calls |-> <<>>]

\* the lazy resolution of has_boot_rec at the top of needs_install and
\* needs_update: the value the static holds afterwards and the calls issued
ResolveBootRec(hbr, img, recs) ==
    IF hbr < 0
    THEN (IF img = 0
          THEN [val |-> bootvar_has_boot_rec(recs), calls |-> <<"bootvar_has_boot_rec">>]
          ELSE [val |-> 1, calls |-> <<>>])
    ELSE [val |-> hbr, calls |-> <<>>]

\* needs_install that forgets the second-stage loader
needs_install_ret_shim_only(files, hbr) ==
    IF ~exists_identical(files, shim_dst_host, Absent) THEN TRUE
    ELSE hbr = 0

\* return value of shim_systemd_needs_install
needs_install_ret(files, hbr) ==
    IF ~exists_identical(files, shim_dst_host, Absent) THEN TRUE
    ELSE IF ~exists_identical(files, systemd_dst_host, Absent) THEN TRUE
    ELSE hbr = 0

\* needs_update that checks presence only, as needs_install does
needs_update_ret_presence_only(files, hbr) ==
    IF ~exists_identical(files, shim_dst_host, Absent) THEN TRUE
    ELSE IF ~exists_identical(files, systemd_dst_host, Absent) THEN TRUE
    ELSE hbr = 0

\* needs_update that forgets the first-stage loader
needs_update_ret_systemd_only(files, hbr) ==
    IF ~exists_identical(files, systemd_dst_host, systemd_src) THEN TRUE
    ELSE hbr = 0

\* return value of shim_systemd_needs_update
needs_update_ret(files, hbr) ==
    IF ~exists_identical(files, shim_dst_host, shim_src) THEN TRUE
    ELSE IF ~exists_identical(files, systemd_dst_host, systemd_src) THEN TRUE
    ELSE hbr = 0

\* make_layout that creates the fallback directory in either mode
make_layout_always_fallback(img) ==
    <<"mkdir_kernel", "mkdir_entries", "mkdir_fallback">>

\* make_layout: the directories it creates, in order
make_layout(img) ==
    <<"mkdir_kernel", "mkdir_entries">>
        \o (IF img # 0 THEN <<"mkdir_fallback">> ELSE <<>>)

\* shim_systemd_install_fallback_bootloader
install_fallback_bootloader == <<"copy_fallback">>

\* install with the test of is_image_mode inverted
install_steps_mode_inverted(img, hbr) ==
    make_layout(img)
        \o <<"copy_shim", "copy_systemd">>
        \o (IF img # 0
            THEN (IF hbr = 0 THEN <<"bootvar_create">> ELSE <<>>)
            ELSE install_fallback_bootloader)

\* install that creates the boot record before it copies the loaders
install_steps_create_first(img, hbr) ==
    make_layout(img)
        \o (IF img = 0
            THEN (IF hbr = 0 THEN <<"bootvar_create">> ELSE <<>>)
            ELSE install_fallback_bootloader)
        \o <<"copy_shim", "copy_systemd">>

\* install that copies the first-stage loader twice and never the second
install_steps_no_systemd_copy(img, hbr) ==
    make_layout(img)
        \o <<"copy_shim", "copy_shim">>
        \o (IF img = 0
            THEN (IF hbr = 0 THEN <<"bootvar_create">> ELSE <<>>)
            ELSE install_fallback_bootloader)

\* shim_systemd_install: the steps it attempts, in order, when none fails
install_steps(img, hbr) ==
    make_layout(img)
        \o <<"copy_shim", "copy_systemd">>
        \o (IF img = 0
            THEN (IF hbr = 0 THEN <<"bootvar_create">> ELSE <<>>)
            ELSE install_fallback_bootloader)

\* a copy that keeps an existing destination instead of replacing it
StepFiles_keep_existing(files, step) ==
    CASE step = "copy_shim" /\ files[shim_dst_host] = Absent
            -> [files EXCEPT ![shim_dst_host] = shim_src]
      [] step = "copy_systemd" /\ files[systemd_dst_host] = Absent
            -> [files EXCEPT ![systemd_dst_host] = systemd_src]
      [] step = "copy_fallback" /\ files[efi_fallback_dst_host] = Absent
            -> [files EXCEPT ![efi_fallback_dst_host] = systemd_src]
      [] OTHER -> files

\* update without the layout step
update_steps_no_layout(img, hbr) ==
    SubSeq(install_steps(img, hbr), Len(make_layout(img)) + 1,
           Len(install_steps(img, hbr)))

\* shim_systemd_update: the steps it attempts are those of install
update_steps(img, hbr) == install_steps(img, hbr)

\* effect of one successful step on the ESP files
StepFiles(files, step) ==
    CASE step = "copy_shim"     -> [files EXCEPT ![shim_dst_host] = shim_src]
      [] step = "copy_systemd"  -> [files EXCEPT ![systemd_dst_host] = systemd_src]
      [] step = "copy_fallback" -> [files EXCEPT ![efi_fallback_dst_host] = systemd_src]
      [] OTHER -> files

\* effect of one successful step on the ESP directories
StepDirs(d, step) ==
    CASE step = "mkdir_kernel"   -> [d EXCEPT ![kernel_dst_host] = TRUE]
      [] step = "mkdir_entries"  -> [d EXCEPT ![systemd_config_entries] = TRUE]
      [] step = "mkdir_fallback" -> [d EXCEPT ![efi_fallback_dir] = TRUE]
      [] OTHER -> d

\* effect of one successful step on the firmware
StepRecs(recs, step) ==
    IF step = "bootvar_create" THEN recs + 1 ELSE recs

RECURSIVE RunFiles(_, _, _)
RunFiles(files, steps, n) ==
    IF n = 0 THEN files
    ELSE StepFiles(RunFiles(files, steps, n - 1), steps[n])

RECURSIVE RunDirs(_, _, _)
RunDirs(d, steps, n) ==
    IF n = 0 THEN d
    ELSE StepDirs(RunDirs(d, steps, n - 1), steps[n])

RECURSIVE RunRecs(_, _, _)
RunRecs(recs, steps, n) ==
    IF n = 0 THEN recs
    ELSE StepRecs(RunRecs(recs, steps, n - 1), steps[n])

Min(a, b) == IF a < b THEN a ELSE b

\* the artifacts install deploys in the current mode all equal their sources
ArtifactsIdentical ==
    /\ esp[shim_dst_host] = shim_src
    /\ esp[systemd_dst_host] = systemd_src
    /\ (image_mode => esp[efi_fallback_dst_host] = systemd_src)

\* bookkeeping of the scenario: successful install, damage, successful update
ConvAfterInstall(c, name, ok) ==
    IF ~ok THEN c
    ELSE IF name = "update" /\ c \in {"damaged", "healed"} THEN "healed"
    ELSE "installed"

ConvAfterDamage(c) == IF c = "none" THEN "none" ELSE "damaged"

(* ---- initial state ---- *)

Init ==
    /\ image_mode \in BOOLEAN
    /\ is_image_mode = 0
    /\ has_boot_rec = -1
    /\ phase = "new"
    /\ \E fb \in {Absent, ForeignContent} :
          /\ esp = [f \in DstFiles |-> IF f = efi_fallback_dst_host THEN fb ELSE Absent]
          /\ dirs = [d \in LayoutDirs |-> d = efi_fallback_dir /\ fb # Absent]
    /\ boot_recs \in {0, 1}
    /\ paths = "unset"
    /\ sd_class = FALSE
    /\ last_init = "none"
    /\ queries = 0
    /\ failed = "none"
    /\ op = "start"
    /\ ret = TRUE
    /\ calls = <<>>
    /\ prev_op = "start"
    /\ prev_ret = TRUE
    /\ pre_esp = esp
    /\ pre_recs = boot_recs
    /\ conv = "none"

\* every step records what ran before it and the files it started from
History ==
    /\ prev_op' = op
    /\ prev_ret' = ret
    /\ pre_esp' = esp
    /\ pre_recs' = boot_recs

(* ---- plugin operations ---- *)

\* an init that sets up the delegate and the paths before it tests bootvar_init
shim_systemd_init_late_check ==
    /\ phase \in {"new", "failed", "destroyed"}
    /\ op' = "init"
    /\ History
    /\ sd_class' = TRUE
    /\ paths' = "resolved"
    /\ IF ~image_mode
       THEN \E bootvar_init_fails \in BOOLEAN :
               /\ calls' = <<"bootvar_init">>
               /\ IF bootvar_init_fails
                  THEN /\ ret' = FALSE
                       /\ failed' = "bootvar_init"
                       /\ phase' = "failed"
                       /\ last_init' = "live_failed"
                       /\ UNCHANGED is_image_mode
                  ELSE /\ ret' = TRUE
                       /\ failed' = "none"
                       /\ phase' = "ready"
                       /\ last_init' = "live_ok"
                       /\ is_image_mode' = 0
       ELSE /\ calls' = <<>>
            /\ ret' = TRUE
            /\ failed' = "none"
            /\ phase' = "ready"
            /\ last_init' = "image"
            /\ is_image_mode' = 1
    /\ UNCHANGED <<image_mode, has_boot_rec, esp, dirs, boot_recs, queries, conv>>

\* shim_systemd_init
shim_systemd_init ==
    /\ phase \in {"new", "failed", "destroyed"}
    /\ op' = "init"
    /\ History
    /\ IF ~image_mode
       THEN \E bootvar_init_fails \in BOOLEAN :
               /\ calls' = <<"bootvar_init">>
               /\ IF bootvar_init_fails
                  THEN /\ ret' = FALSE
                       /\ failed' = "bootvar_init"
                       /\ phase' = "failed"
                       /\ last_init' = "live_failed"
                       /\ UNCHANGED <<is_image_mode, paths, sd_class>>
                  ELSE /\ ret' = TRUE
                       /\ failed' = "none"
                       /\ phase' = "ready"
                       /\ last_init' = "live_ok"
                       /\ is_image_mode' = 0
                       /\ sd_class' = TRUE
                       /\ paths' = "resolved"
       ELSE /\ calls' = <<>>
            /\ ret' = TRUE
            /\ failed' = "none"
            /\ phase' = "ready"
            /\ last_init' = "image"
            /\ is_image_mode' = 1
            /\ sd_class' = TRUE
            /\ paths' = "resolved"
    /\ UNCHANGED <<image_mode, has_boot_rec, esp, dirs, boot_recs, queries, conv>>

\* shim_systemd_needs_install
shim_systemd_needs_install ==
    /\ phase = "ready"
    /\ op' = "needs_install"
    /\ History
    /\ calls' = ResolveBootRec(has_boot_rec, is_image_mode, boot_recs).calls
    /\ has_boot_rec' = ResolveBootRec(has_boot_rec, is_image_mode, boot_recs).val
    /\ ret' = needs_install_ret(esp, has_boot_rec')
    /\ queries' = queries + Len(calls')
    /\ queries' <= MaxQueries
    /\ failed' = "none"
    /\ UNCHANGED <<image_mode, is_image_mode, phase, esp, dirs, boot_recs, conv,
                   paths, sd_class, last_init>>

\* shim_systemd_needs_update
shim_systemd_needs_update ==
    /\ phase = "ready"
    /\ op' = "needs_update"
    /\ History
    /\ calls' = ResolveBootRec(has_boot_rec, is_image_mode, boot_recs).calls
    /\ has_boot_rec' = ResolveBootRec(has_boot_rec, is_image_mode, boot_recs).val
    /\ ret' = needs_update_ret(esp, has_boot_rec')
    /\ queries' = queries + Len(calls')
    /\ queries' <= MaxQueries
    /\ failed' = "none"
    /\ UNCHANGED <<image_mode, is_image_mode, phase, esp, dirs, boot_recs, conv,
                   paths, sd_class, last_init>>

\* body of shim_systemd_install, shared with shim_systemd_update
InstallBody(name) ==
    LET steps == IF name = "update"
                 THEN update_steps(is_image_mode, has_boot_rec)
                 ELSE install_steps(is_image_mode, has_boot_rec) IN
    \E n \in 0..Len(steps) :
        \* n steps succeed; step n+1, if there is one, fails
        /\ \A i \in 1..n : steps[i] = "bootvar_create" => boot_recs < MaxBootRecs
        /\ op' = name
        /\ History
        /\ calls' = SubSeq(steps, 1, Min(n + 1, Len(steps)))
        /\ ret' = (n = Len(steps))
        /\ failed' = (IF n < Len(steps) THEN steps[n + 1] ELSE "none")
        /\ esp' = RunFiles(esp, steps, n)
        /\ dirs' = RunDirs(dirs, steps, n)
        /\ boot_recs' = RunRecs(boot_recs, steps, n)
        /\ conv' = ConvAfterInstall(conv, name, n = Len(steps))
        /\ UNCHANGED <<image_mode, is_image_mode, has_boot_rec, phase,
                       paths, sd_class, last_init, queries>>

\* shim_systemd_install
shim_systemd_install ==
    /\ phase = "ready"
    /\ InstallBody("install")

\* shim_systemd_update
shim_systemd_update ==
    /\ phase = "ready"
    /\ InstallBody("update")

\* a remove that deletes the two loaders it deployed
shim_systemd_remove_deleting ==
    /\ phase = "ready"
    /\ op' = "remove"
    /\ History
    /\ ret' = TRUE
    /\ calls' = <<>>
    /\ failed' = "none"
    /\ esp' = [esp EXCEPT ![shim_dst_host] = Absent, ![systemd_dst_host] = Absent]
    /\ UNCHANGED <<image_mode, is_image_mode, has_boot_rec, phase, dirs,
                   boot_recs, conv, paths, sd_class, last_init, queries>>

\* shim_systemd_remove
shim_systemd_remove ==
    /\ phase = "ready"
    /\ op' = "remove"
    /\ History
    /\ ret' = TRUE
    /\ calls' = <<>>
    /\ failed' = "none"
    /\ UNCHANGED <<image_mode, is_image_mode, has_boot_rec, phase, esp, dirs,
                   boot_recs, conv, paths, sd_class, last_init, queries>>

\* shim_systemd_destroy
shim_systemd_destroy ==
    /\ phase \in {"ready", "failed"}
    /\ op' = "destroy"
    /\ History
    /\ failed' = "none"
    /\ \E aborts \in (IF paths = "freed" THEN BOOLEAN ELSE {FALSE}) :
          \* free() of the path statics a previous destroy already freed is
          \* undefined: the process aborts there, or runs on
          IF aborts
          THEN /\ ret' = FALSE
               /\ calls' = <<>>
               /\ phase' = "crashed"
               /\ UNCHANGED <<paths, sd_class>>
          ELSE /\ ret' = TRUE
               /\ calls' = IF is_image_mode = 0 THEN <<"bootvar_destroy">> ELSE <<>>
               /\ phase' = "destroyed"
               /\ paths' = "freed"
               /\ sd_class' = FALSE
    /\ UNCHANGED <<image_mode, is_image_mode, has_boot_rec, esp, dirs, boot_recs, conv,
                   last_init, queries>>

(* ---- the environment: changes to the ESP and the firmware from outside ---- *)

\* a deployed file is deleted from the ESP
ExtDelete ==
    \E f \in DstFiles :
        /\ esp[f] # Absent
        /\ esp' = [esp EXCEPT ![f] = Absent]
        /\ op' = "ext_delete"
        /\ conv' = ConvAfterDamage(conv)
        /\ ret' = TRUE /\ calls' = <<>> /\ failed' = "none" /\ History
        /\ UNCHANGED <<image_mode, is_image_mode, has_boot_rec, phase, dirs, boot_recs,
                       paths, sd_class, last_init, queries>>

\* the content of a deployed file is altered
ExtCorrupt ==
    \E f \in DstFiles :
        /\ esp[f] \notin {Absent, ForeignContent}
        /\ esp' = [esp EXCEPT ![f] = ForeignContent]
        /\ op' = "ext_corrupt"
        /\ conv' = ConvAfterDamage(conv)
        /\ ret' = TRUE /\ calls' = <<>> /\ failed' = "none" /\ History
        /\ UNCHANGED <<image_mode, is_image_mode, has_boot_rec, phase, dirs, boot_recs,
                       paths, sd_class, last_init, queries>>

\* the firmware's boot records are edited by another tool
ExtFirmware ==
    \E r \in {boot_recs - 1, boot_recs + 1} :
        /\ r \in 0..MaxBootRecs
        /\ boot_recs' = r
        /\ op' = "ext_firmware"
        /\ ret' = TRUE /\ calls' = <<>> /\ failed' = "none" /\ History
        /\ UNCHANGED <<image_mode, is_image_mode, has_boot_rec, phase, esp, dirs, conv,
                       paths, sd_class, last_init, queries>>

Next ==
    \/ shim_systemd_init
    \/ shim_systemd_needs_install
    \/ shim_systemd_needs_update
    \/ shim_systemd_install
    \/ shim_systemd_update
    \/ shim_systemd_remove
    \/ shim_systemd_destroy
    \/ ExtDelete
    \/ ExtCorrupt
    \/ ExtFirmware

Spec == Init /\ [][Next]_vars

TypeOK ==
    /\ image_mode \in BOOLEAN
    /\ is_image_mode \in {0, 1}
    /\ has_boot_rec \in {-1, 0, 1}
    /\ phase \in {"new", "ready", "failed", "destroyed", "crashed"}
    /\ paths \in {"unset", "resolved", "freed"}
    /\ sd_class \in BOOLEAN
    /\ last_init \in {"none", "live_ok", "live_failed", "image"}
    /\ queries \in 0..MaxQueries
    /\ \A f \in DstFiles : esp[f] \in {Absent, ForeignContent, shim_src, systemd_src}
    /\ \A d \in LayoutDirs : dirs[d] \in BOOLEAN
    /\ boot_recs \in 0..MaxBootRecs
    /\ ret \in BOOLEAN
    /\ conv \in {"none", "installed", "damaged", "healed"}
    /\ prev_ret \in BOOLEAN
    /\ pre_recs \in 0..MaxBootRecs
    /\ \A f \in DstFiles : pre_esp[f] \in {Absent, ForeignContent, shim_src, systemd_src}

(* ---- properties ---- *)

\* the last operation issued the collaborator call c
Issued(c) == \E i \in 1..Len(calls) : calls[i] = c

\* how many times the last operation issued the collaborator call c
IssuedCount(c) == Cardinality({i \in 1..Len(calls) : calls[i] = c})

\* the last operation was an install that got past the layout and both copies
CopiesSucceeded ==
    \E i \in 1..Len(calls) : calls[i] = "copy_systemd" /\ (i < Len(calls) \/ ret)

\* some artifact install deploys in the current mode is missing from the ESP
DeployedArtifactMissing ==
    \/ esp[shim_dst_host] = Absent
    \/ esp[systemd_dst_host] = Absent
    \/ (image_mode /\ esp[efi_fallback_dst_host] = Absent)

\* some artifact install deploys in the current mode differs from its source
DeployedArtifactDiffers ==
    \/ esp[shim_dst_host] # shim_src
    \/ esp[systemd_dst_host] # systemd_src
    \/ (image_mode /\ esp[efi_fallback_dst_host] # systemd_src)

\* C1: an install that directly follows a successful install leaves the ESP
\* files as the first one left them and issues no boot-record creation call.
C1_InstallIdempotent ==
    (op = "install" /\ prev_op = "install" /\ prev_ret)
        => (esp = pre_esp /\ ~Issued("bootvar_create"))

\* C2: needs_install called directly after a successful install returns false,
\* in live mode and in image mode.
C2_NotNeededAfterInstall ==
    (op = "needs_install" /\ prev_op = "install" /\ prev_ret) => ret = FALSE

\* C3: in live mode an install whose layout and copies succeed issues exactly
\* one boot-record creation call when the firmware held no boot record for the
\* first-stage loader, and none when it held one.
C3_OneCreationIffNoRecord ==
    (op = "install" /\ ~image_mode /\ CopiesSucceeded)
        => IssuedCount("bootvar_create") = (IF pre_recs = 0 THEN 1 ELSE 0)

\* C4: after a successful install and damage to a deployed artifact, an update
\* that returns success leaves every deployed artifact identical to its source.
C4_UpdateConverges ==
    (op = "update" /\ ret /\ conv = "healed") => ArtifactsIdentical

\* C4 witness: a deployed artifact was deleted or altered after a successful
\* install, and the update that followed succeeded.
C4_Witness ==
    /\ op = "update" /\ ret /\ conv = "healed"
    /\ prev_op \in {"ext_delete", "ext_corrupt"}
    /\ \/ pre_esp[shim_dst_host] # shim_src
       \/ pre_esp[systemd_dst_host] # systemd_src
       \/ (image_mode /\ pre_esp[efi_fallback_dst_host] # systemd_src)
    /\ ArtifactsIdentical

\* C5: in image mode no operation calls the boot-entry collaborator, and every
\* successful install or update writes the second-stage loader to the fallback
\* path.
C5_ImageModeNoFirmware ==
    image_mode =>
        /\ ~Issued("bootvar_init")
        /\ ~Issued("bootvar_has_boot_rec")
        /\ ~Issued("bootvar_create")
        /\ ~Issued("bootvar_destroy")
        /\ (op \in {"install", "update"} /\ ret)
              => (Issued("copy_fallback") /\ esp[efi_fallback_dst_host] = systemd_src)

\* C5 witness: a successful image-mode install over a foreign fallback loader.
C5_Witness ==
    /\ image_mode /\ op = "install" /\ ret
    /\ pre_esp[efi_fallback_dst_host] = ForeignContent
    /\ esp[efi_fallback_dst_host] = systemd_src

\* C6: needs_install returns true exactly when a loader is absent or, in live
\* mode, the firmware holds no boot record for the first-stage loader.
C6_NeedsInstallIff ==
    op = "needs_install" =>
        (ret <=> \/ esp[shim_dst_host] = Absent
                 \/ esp[systemd_dst_host] = Absent
                 \/ (~image_mode /\ boot_recs = 0))

\* C7: needs_update returns true exactly when a loader is absent or differs
\* from its source or, in live mode, the firmware holds no boot record.
C7_NeedsUpdateIff ==
    op = "needs_update" =>
        (ret <=> \/ esp[shim_dst_host] # shim_src
                 \/ esp[systemd_dst_host] # systemd_src
                 \/ (~image_mode /\ boot_recs = 0))

\* C8 as stated: needs_update returns true exactly when some artifact deployed
\* in the current mode differs from its source.
C8_Original ==
    op = "needs_update" => (ret <=> DeployedArtifactDiffers)

\* C8 as amended: needs_update returns true exactly when the first-stage or the
\* second-stage loader is absent or differs from its source, or in live mode
\* the memoised boot-record presence is absent; the fallback loader is not
\* examined.
C8_Amended ==
    op = "needs_update" =>
        (ret <=> \/ esp[shim_dst_host] # shim_src
                 \/ esp[systemd_dst_host] # systemd_src
                 \/ (~image_mode /\ has_boot_rec = 0))

\* C8 witness: needs_update is true in live mode although both loaders are
\* identical to their sources.
C8_Witness ==
    /\ op = "needs_update" /\ ret /\ ~image_mode
    /\ esp[shim_dst_host] = shim_src
    /\ esp[systemd_dst_host] = systemd_src
    /\ has_boot_rec = 0

\* C9 as stated: needs_install returns true whenever an artifact deployed in the
\* current mode, the image-mode fallback loader included, is missing.
C9_Original ==
    (op = "needs_install" /\ DeployedArtifactMissing) => ret

\* C9 as amended: needs_install returns true whenever the first-stage or the
\* second-stage loader is missing.
C9_Amended ==
    (op = "needs_install"
        /\ (esp[shim_dst_host] = Absent \/ esp[systemd_dst_host] = Absent)) => ret

\* C9 witness: only the second-stage loader is missing, the boot record is
\* known to be present, and needs_install returns true.
C9_Witness ==
    /\ op = "needs_install" /\ ret
    /\ esp[shim_dst_host] # Absent
    /\ esp[systemd_dst_host] = Absent
    /\ has_boot_rec = 1

\* C10: in every state of an initialised plugin, if needs_install would return
\* true then needs_update would return true as well.
C10_UpdateStricter ==
    phase = "ready" =>
        LET hbr == ResolveBootRec(has_boot_rec, is_image_mode, boot_recs).val IN
        needs_install_ret(esp, hbr) => needs_update_ret(esp, hbr)

\* C10 witness: needs_install has just returned true because the first-stage
\* loader is missing, and needs_update returns true in the same state.
C10_Witness ==
    /\ op = "needs_install" /\ ret
    /\ esp[shim_dst_host] = Absent
    /\ esp[systemd_dst_host] = systemd_src
    /\ has_boot_rec = 1
    /\ needs_update_ret(esp, has_boot_rec)

\* the order of steps the specification gives for install in the current mode
ClaimedOrder ==
    IF image_mode
    THEN <<"mkdir_kernel", "mkdir_entries", "mkdir_fallback",
           "copy_shim", "copy_systemd", "copy_fallback">>
    ELSE <<"mkdir_kernel", "mkdir_entries",
           "copy_shim", "copy_systemd", "bootvar_create">>

\* the sequence s is a prefix of the sequence t
IsPrefix(s, t) == Len(s) <= Len(t) /\ \A i \in 1..Len(s) : s[i] = t[i]

\* C11: install attempts its steps in the fixed order layout, first-stage copy,
\* second-stage copy, then boot record (live) or fallback copy (image); it
\* returns failure exactly when a step fails, attempts nothing after the
\* failing step, and a failed layout or copy step is followed by no boot-record
\* creation and no fallback write.
C11_OrderedFailFast ==
    op = "install" =>
        /\ IsPrefix(calls, ClaimedOrder)
        /\ (ret <=> failed = "none")
        /\ (failed # "none" => Len(calls) > 0 /\ calls[Len(calls)] = failed)
        /\ (failed \in {"mkdir_kernel", "mkdir_entries", "mkdir_fallback",
                        "copy_shim", "copy_systemd"}
              => /\ ~Issued("bootvar_create")
                 /\ ~Issued("copy_fallback")
                 /\ boot_recs = pre_recs
                 /\ esp[efi_fallback_dst_host] = pre_esp[efi_fallback_dst_host])

\* C11 witness: a live-mode install that owed a boot record failed at the
\* first-stage copy and stopped there.
C11_Witness ==
    /\ op = "install" /\ ~ret /\ ~image_mode
    /\ has_boot_rec = 0 /\ boot_recs = 0
    /\ failed = "copy_shim"
    /\ calls = <<"mkdir_kernel", "mkdir_entries", "copy_shim">>

\* the step from the current state to the next is what running the given steps
\* does when the first n of them succeed
StepsOutcome(steps, n) ==
    /\ \A i \in 1..n : steps[i] = "bootvar_create" => boot_recs < MaxBootRecs
    /\ calls' = SubSeq(steps, 1, Min(n + 1, Len(steps)))
    /\ ret' = (n = Len(steps))
    /\ failed' = (IF n < Len(steps) THEN steps[n + 1] ELSE "none")
    /\ esp' = RunFiles(esp, steps, n)
    /\ dirs' = RunDirs(dirs, steps, n)
    /\ boot_recs' = RunRecs(boot_recs, steps, n)
    /\ UNCHANGED <<image_mode, is_image_mode, has_boot_rec, phase, paths, sd_class, queries>>

\* C12: every update does what some run of install does from the same state,
\* and every install does what some run of update does: same collaborator
\* calls, same ESP and firmware state, same result.
C12_UpdateIsInstall ==
    [][ /\ (op' = "update" =>
               \E n \in 0..Len(install_steps(is_image_mode, has_boot_rec)) :
                   StepsOutcome(install_steps(is_image_mode, has_boot_rec), n))
        /\ (op' = "install" =>
               \E n \in 0..Len(update_steps(is_image_mode, has_boot_rec)) :
                   StepsOutcome(update_steps(is_image_mode, has_boot_rec), n))
      ]_vars

\* C12 witness: a successful live-mode update that created the boot record.
C12_Witness ==
    /\ op = "update" /\ ret /\ ~image_mode
    /\ Issued("bootvar_create")
    /\ boot_recs = pre_recs + 1
    /\ ArtifactsIdentical

\* C13: remove returns success, issues no collaborator call and changes neither
\* the ESP, the firmware, the resolved paths, the mode flag nor the boot-record
\* cache.
C13_RemoveNoEffect ==
    [][ op' = "remove" =>
            /\ ret' = TRUE
            /\ calls' = <<>>
            /\ UNCHANGED <<esp, dirs, boot_recs, paths, sd_class, image_mode,
                           is_image_mode, has_boot_rec, phase, queries>>
      ]_vars

\* C13 witness: remove has returned success after an install, and the loaders
\* and the boot record are still in place.
C13_Witness ==
    /\ op = "remove" /\ ret /\ ~image_mode
    /\ esp[shim_dst_host] = shim_src
    /\ esp[systemd_dst_host] = systemd_src
    /\ boot_recs > 0
    /\ has_boot_rec = 1

\* C14: init returns failure exactly when bootvar_init fails, which happens in
\* live mode only, and then it resolves no path and does not initialise the
\* delegate; otherwise, and always in image mode, it returns success with the
\* paths resolved and the delegate initialised.
C14_InitFailsIffCollaborator ==
    [][ op' = "init" =>
            /\ (ret' = FALSE <=> failed' = "bootvar_init")
            /\ (failed' = "bootvar_init" =>
                   /\ ~image_mode
                   /\ calls' = <<"bootvar_init">>
                   /\ UNCHANGED <<paths, sd_class>>)
            /\ (ret' = TRUE => paths' = "resolved" /\ sd_class' = TRUE)
            /\ (image_mode => ret' = TRUE /\ calls' = <<>>)
      ]_vars

\* C14 witness: the first init of a live-mode process failed in bootvar_init,
\* with no path resolved and the delegate not initialised.
C14_Witness ==
    /\ op = "init" /\ ~ret /\ ~image_mode
    /\ failed = "bootvar_init"
    /\ paths = "unset"
    /\ sd_class = FALSE

\* C15: the boot-record memo starts unknown, is resolved by every needs_install
\* or needs_update, is changed by no other operation and never once it is
\* resolved, and the firmware is queried at most once in a process.
C15_WriteOnceMemo ==
    /\ has_boot_rec = -1
    /\ queries = 0
    /\ [][ /\ (has_boot_rec # -1 => has_boot_rec' = has_boot_rec)
           /\ (has_boot_rec' # has_boot_rec => op' \in {"needs_install", "needs_update"})
           /\ (op' \in {"needs_install", "needs_update"} => has_boot_rec' \in {0, 1})
           /\ queries' <= 1
         ]_vars

\* C15 witness: a later needs_update issues no query and keeps the memo at
\* absent, although the firmware holds a boot record by now.
C15_Witness ==
    /\ op = "needs_update" /\ ~image_mode
    /\ calls = <<>>
    /\ queries = 1
    /\ has_boot_rec = 0
    /\ boot_recs = 1

\* C16: an install or update in which every step succeeds, run after an install
\* that failed, leaves both loaders identical to their sources, the fallback
\* loader written in image mode and a boot record present in live mode.
C16_SelfHealing ==
    (op \in {"install", "update"} /\ ret /\ prev_op = "install" /\ ~prev_ret)
        => (ArtifactsIdentical /\ (~image_mode => boot_recs > 0))

\* C17: in live mode no operation of the plugin creates or changes the fallback
\* directory or the fallback loader.
C17_LiveFallbackUntouched ==
    [][ (~image_mode /\ op' \notin {"ext_delete", "ext_corrupt", "ext_firmware"})
            => /\ esp'[efi_fallback_dst_host] = esp[efi_fallback_dst_host]
               /\ dirs'[efi_fallback_dir] = dirs[efi_fallback_dir]
      ]_vars

\* C17 witness: a successful live-mode install on an ESP without a fallback
\* directory has left it without one.
C17_Witness ==
    /\ op = "install" /\ ret /\ ~image_mode
    /\ dirs[kernel_dst_host]
    /\ ~dirs[efi_fallback_dir]
    /\ esp[efi_fallback_dst_host] = Absent
    /\ esp[systemd_dst_host] = systemd_src

\* C18: destroy calls bootvar_destroy exactly when the latest init called
\* bootvar_init and that call succeeded.
C18_PairedLifecycle ==
    op = "destroy" => (Issued("bootvar_destroy") <=> last_init = "live_ok")

====
